---------------------------- MODULE Spec2Model ----------------------------
(***************************************************************************)
(* Model of internal/storage/exporter/render.go of rmfakecloud:            *)
(*   - RenderCustom / parseSceneFile: the custom single-page render path   *)
(*   - RenderPoundifdef: the file-backed full-document render path         *)
(*   - SeekCloser / NewSeekCloser: the in-memory read/seek/close stream    *)
(* Optional values (Go nil or a value) are sequences of length 0 or 1.     *)
(* Go errors are strings, "nil" being the nil error.                       *)
(***************************************************************************)
EXTENDS Integers, Sequences, FiniteSets, TLC

VARIABLES
    \* ---- RenderCustom / parseSceneFile
    pc,            \* position of the RenderCustom call
    reader,        \* the reader argument: <<>> (nil) or <<[len, pos, broken]>>
    output,        \* the output argument: <<>> (nil) or <<[written, doc]>>
    scene,         \* <<>> or <<decoded scene>>
    pdf,           \* <<>> or <<canvas>>: parseSceneFile's result
    err,           \* the error RenderCustom returns
    decoderCalls,  \* how often ExtractScene was invoked
    canvasCalls,   \* how many calls were made on the canvas library
    \* ---- RenderPoundifdef
    ppc,           \* position of the RenderPoundifdef call
    zip,           \* the input container: [valid, pages, open]
    fs,            \* the output path: [creatable, exists, size]
    writer,        \* <<>> (not created) or <<[open, pos]>>: the *os.File
    rendered,      \* whether RenderRmNotebookFromZip ran to completion
    ret,           \* <<>> before the return, then <<[stream, err]>>
    \* ---- SeekCloser
    sc,            \* the SeekCloser: [s, i]
    plain,         \* a bytes.Reader over the same bytes that is never closed
    lastOp,        \* the last call's result on sc:    [op, n, data, err]
    plainOp,       \* the same call's result on plain (Close: not called)
    closes         \* number of Close calls so far

varsCustom == <<pc, reader, output, scene, pdf, err, decoderCalls, canvasCalls>>
varsPound  == <<ppc, zip, fs, writer, rendered, ret>>
varsSeek   == <<sc, plain, lastOp, plainOp, closes>>
vars == <<pc, reader, output, scene, pdf, err, decoderCalls, canvasCalls,
          ppc, zip, fs, writer, rendered, ret,
          sc, plain, lastOp, plainOp, closes>>

(***************************************************************************)
(* Bounds of the model.                                                    *)
(***************************************************************************)
MaxBody   == 1     \* input bytes after the preamble
MaxLayers == 2     \* layers of a decoded scene
MaxLines  == 2     \* lines of a decoded scene, all layers together
MaxPoints == 3     \* points of a decoded scene, all lines together
MaxPages  == 2     \* pages of the input notebook
MaxOut    == 2     \* size of an output file found at the path, bytes of one read
MaxLen    == 2     \* bytes wrapped by a SeekCloser
MaxSeek   == 2     \* magnitude of a Seek offset
MaxCloses == 2     \* Close calls on one SeekCloser

(***************************************************************************)
(* Constants of the program.                                               *)
(***************************************************************************)
headerLength == 43
Fac          == 1
WidthDivisor == 5
DeviceWidth  == 100
DeviceHeight == 140

Min(a, b) == IF a < b THEN a ELSE b

\* A rational number num/den, for the float64 line width w * fac / 5.
Rat(n, d) == [num |-> n, den |-> d]
RatEq(a, b) == a.num * b.den = b.num * a.den

(***************************************************************************)
(* The decoded scene: Layers of Lines of Points (v6.PenPoint).             *)
(***************************************************************************)
PenPoints ==
    { [X |-> 0,  Y |-> 0,  Width |-> 2, Pressure |-> 10],
      [X |-> 10, Y |-> 20, Width |-> 4, Pressure |-> 30] }

\* Every point sequence of at most n points.
PointSeqs(n) == UNION { [1..k -> PenPoints] : k \in 0..n }

RECURSIVE SumLen(_)
SumLen(lines) ==
    IF lines = <<>> THEN 0 ELSE Len(Head(lines).Points) + SumLen(Tail(lines))

\* Every sequence of at most nl lines holding at most np points together.
RECURSIVE LineSeqs(_, _)
LineSeqs(nl, np) ==
    {<<>>} \cup
    (IF nl = 0 THEN {}
     ELSE UNION { { <<[Points |-> p]>> \o rest : rest \in LineSeqs(nl - 1, np - Len(p)) }
                  : p \in PointSeqs(np) })

\* Every sequence of at most ny layers, nl lines and np points together.
RECURSIVE LayerSeqs(_, _, _)
LayerSeqs(ny, nl, np) ==
    {<<>>} \cup
    (IF ny = 0 THEN {}
     ELSE UNION { { <<[Lines |-> ls]>> \o rest
                    : rest \in LayerSeqs(ny - 1, nl - Len(ls), np - SumLen(ls)) }
                  : ls \in LineSeqs(nl, np) })

Scenes == { [Layers |-> ly] : ly \in LayerSeqs(MaxLayers, MaxLines, MaxPoints) }

(***************************************************************************)
(* The canvas (fpdf.Fpdf) as parseSceneFile uses it: page size, line       *)
(* styles, the current line width and the line-draw commands in order.     *)
(***************************************************************************)
NewCustom(wd, ht) ==
    [Wd |-> wd, Ht |-> ht, capStyle |-> "default", joinStyle |-> "default",
     lineWidth |-> <<>>, cmds |-> <<>>]

SetLineCapStyle(f, style)  == [f EXCEPT !.capStyle = style]
SetLineJoinStyle(f, style) == [f EXCEPT !.joinStyle = style]
SetLineWidth(f, w)         == [f EXCEPT !.lineWidth = <<w>>]

\* pdf.Line draws with the line width current at the call.
Line(f, x1, y1, x2, y2) ==
    [f EXCEPT !.cmds = Append(@, [x1 |-> x1, y1 |-> y1, x2 |-> x2, y2 |-> y2,
                                  width |-> f.lineWidth[1]])]


(***************************************************************************)
(* parseSceneFile, lines 76-97: the stroke composition loops.              *)
(***************************************************************************)
\* A plausible slip: the width of the segment's leading point.
DrawSegmentLeadingWidth(f, lastPoint, point) ==
    LET w   == lastPoint.Width
        fac == Fac
        f1  == SetLineWidth(f, Rat(w * fac, WidthDivisor))
    IN Line(f1, lastPoint.X + DeviceWidth \div 2, lastPoint.Y,
                point.X + DeviceWidth \div 2, point.Y)

\* A plausible slip: the recentring offset applied to y instead of x.
DrawSegmentShiftY(f, lastPoint, point) ==
    LET w   == point.Width
        fac == Fac
        f1  == SetLineWidth(f, Rat(w * fac, WidthDivisor))
    IN Line(f1, lastPoint.X, lastPoint.Y + DeviceWidth \div 2,
                point.X, point.Y + DeviceWidth \div 2)

\* Lines 83-91: the body of `if lastPoint != nil`.
DrawSegment(f, lastPoint, point) ==
    LET w   == point.Width
        fac == Fac
        f1  == SetLineWidth(f, Rat(w * fac, WidthDivisor))
        x   == lastPoint.X + DeviceWidth \div 2
        y   == lastPoint.Y
        dx  == point.X + DeviceWidth \div 2
        dy  == point.Y
    IN Line(f1, x, y, dx, dy)

\* Lines 79-95: for _, point := range Points, from index k on.
RECURSIVE PointLoop(_, _, _, _)
PointLoop(f, points, k, lastPoint) ==
    IF k > Len(points) THEN [pdf |-> f, lastPoint |-> lastPoint]
    ELSE LET point == points[k]
             f1    == IF lastPoint # <<>> THEN DrawSegment(f, lastPoint[1], point)
                      ELSE f
         IN PointLoop(f1, points, k + 1, <<point>>)

\* A plausible slip: lastPoint declared outside the loop over the lines, so
\* that it survives from one line to the next.
RECURSIVE LineLoopCarry(_, _, _, _)
LineLoopCarry(f, lines, j, lastPoint) ==
    IF j > Len(lines) THEN f
    ELSE LET r == PointLoop(f, lines[j].Points, 1, lastPoint)
         IN LineLoopCarry(r.pdf, lines, j + 1, r.lastPoint)

LineLoopNoReset(f, lines, j) == LineLoopCarry(f, lines, j, <<>>)

\* Lines 77-96: for _, line := range layer.Lines, from index j on;
\* `var lastPoint *v6.PenPoint` starts as nil for every line.
RECURSIVE LineLoop(_, _, _)
LineLoop(f, lines, j) ==
    IF j > Len(lines) THEN f
    ELSE LineLoop(PointLoop(f, lines[j].Points, 1, <<>>).pdf, lines, j + 1)

\* Lines 76-97: for _, layer := range scene.Layers, from index a on.
RECURSIVE LayerLoop(_, _, _)
LayerLoop(f, layers, a) ==
    IF a > Len(layers) THEN f
    ELSE LayerLoop(LineLoop(f, layers[a].Lines, 1), layers, a + 1)

\* Lines 68-97: the canvas made and drawn on for a decoded scene.
ComposeScene(sceneValue) ==
    LET f0 == NewCustom(DeviceWidth, DeviceHeight)
        f1 == SetLineCapStyle(f0, "round")
        f2 == SetLineJoinStyle(f1, "round")
    IN LayerLoop(f2, sceneValue.Layers, 1)

\* The calls made on the canvas library for a canvas: NewCustom, the two
\* styles, and SetLineWidth and Line for each segment.
CallsOn(f) == 3 + 2 * Len(f.cmds)

(***************************************************************************)
(* The reader argument and io.ReadFull (line 57).                          *)
(***************************************************************************)
ReaderArgs ==
    {<<>>} \cup { <<[len |-> n, pos |-> 0, broken |-> b]>> :
                    n \in 0..(headerLength + MaxBody), b \in BOOLEAN }

OutputArgs == { <<>>, <<[written |-> "none", doc |-> <<>>]>> }

\* io.ReadFull(file, buffer) with len(buffer) = n: the reader afterwards and
\* the error. io.EOF when nothing was read, io.ErrUnexpectedEOF when the
\* input ended after some but not all bytes, the reader's error if it fails.
ReadFull(r, n) ==
    IF r.broken THEN [r |-> r, err |-> "read error"]
    ELSE IF r.len - r.pos >= n THEN [r |-> [r EXCEPT !.pos = @ + n], err |-> "nil"]
    ELSE IF r.len - r.pos = 0 THEN [r |-> r, err |-> "EOF"]
    ELSE [r |-> [r EXCEPT !.pos = r.len], err |-> "unexpected EOF"]

(***************************************************************************)
(* RenderCustom, lines 104-121, with parseSceneFile, lines 54-102.         *)
(* pc: Idle (the call), ReadFull (57), ExtractScene (63), Compose (68-97), *)
(* Output (115), Done (return nil, 120), Failed (a return err).            *)
(***************************************************************************)
InitCustom ==
    /\ pc = "Idle"
    /\ reader \in ReaderArgs
    /\ output \in OutputArgs
    /\ scene = <<>>
    /\ pdf = <<>>
    /\ err = "nil"
    /\ decoderCalls = 0
    /\ canvasCalls = 0

\* A plausible slip: only the reader is checked.
CheckArgsReaderOnly ==
    /\ pc = "Idle"
    /\ IF reader = <<>>
       THEN /\ err' = "reader or writer were nil"
            /\ pc' = "Failed"
       ELSE /\ pc' = "ReadFull"
            /\ UNCHANGED err
    /\ UNCHANGED <<reader, output, scene, pdf, decoderCalls, canvasCalls>>
    /\ UNCHANGED <<varsPound, varsSeek>>

\* Lines 105-107.
CheckArgs ==
    /\ pc = "Idle"
    /\ IF output = <<>> \/ reader = <<>>
       THEN /\ err' = "reader or writer were nil"
            /\ pc' = "Failed"
       ELSE /\ pc' = "ReadFull"
            /\ UNCHANGED err
    /\ UNCHANGED <<reader, output, scene, pdf, decoderCalls, canvasCalls>>
    /\ UNCHANGED <<varsPound, varsSeek>>

\* A plausible slip: io.ReadFull's error is dropped.
ReadHeaderUnchecked ==
    /\ pc = "ReadFull"
    /\ reader' = <<ReadFull(reader[1], headerLength).r>>
    /\ pc' = "ExtractScene"
    /\ UNCHANGED <<err, output, scene, pdf, decoderCalls, canvasCalls>>
    /\ UNCHANGED <<varsPound, varsSeek>>

\* Lines 55-60 (and RenderCustom's return at 110-112).
ReadHeader ==
    /\ pc = "ReadFull"
    /\ LET res == ReadFull(reader[1], headerLength)
       IN /\ reader' = <<res.r>>
          /\ IF res.err # "nil"
             THEN /\ err' = res.err
                  /\ pc' = "Failed"
             ELSE /\ UNCHANGED err
                  /\ pc' = "ExtractScene"
    /\ UNCHANGED <<output, scene, pdf, decoderCalls, canvasCalls>>
    /\ UNCHANGED <<varsPound, varsSeek>>

\* A plausible slip: the canvas is made and styled before the decoder runs.
ExtractSceneCanvasFirst ==
    /\ pc = "ExtractScene"
    /\ decoderCalls' = decoderCalls + 1
    /\ canvasCalls' = canvasCalls + 3
    /\ \/ /\ \E consumed \in reader[1].pos..reader[1].len :
                reader' = <<[reader[1] EXCEPT !.pos = consumed]>>
          /\ err' = "decoder error"
          /\ pc' = "Failed"
          /\ UNCHANGED scene
       \/ /\ reader' = <<[reader[1] EXCEPT !.pos = reader[1].len]>>
          /\ \E s \in Scenes : scene' = <<s>>
          /\ pc' = "Compose"
          /\ UNCHANGED err
    /\ UNCHANGED <<output, pdf>>
    /\ UNCHANGED <<varsPound, varsSeek>>

\* Lines 62-66 (and RenderCustom's return at 110-112): the external decoder
\* reads the rest of the input and answers a scene, or stops somewhere in
\* it with an error.
ExtractScene ==
    /\ pc = "ExtractScene"
    /\ decoderCalls' = decoderCalls + 1
    /\ \/ /\ \E consumed \in reader[1].pos..reader[1].len :
                reader' = <<[reader[1] EXCEPT !.pos = consumed]>>
          /\ err' = "decoder error"
          /\ pc' = "Failed"
          /\ UNCHANGED scene
       \/ /\ reader' = <<[reader[1] EXCEPT !.pos = reader[1].len]>>
          /\ \E s \in Scenes : scene' = <<s>>
          /\ pc' = "Compose"
          /\ UNCHANGED err
    /\ UNCHANGED <<output, pdf, canvasCalls>>
    /\ UNCHANGED <<varsPound, varsSeek>>

\* Lines 68-101: parseSceneFile returns the canvas and no error.
Compose ==
    /\ pc = "Compose"
    /\ pdf' = <<ComposeScene(scene[1])>>
    /\ canvasCalls' = canvasCalls + CallsOn(pdf'[1])
    /\ pc' = "Output"
    /\ UNCHANGED <<reader, output, scene, err, decoderCalls>>
    /\ UNCHANGED <<varsPound, varsSeek>>

\* A plausible slip: the error of pdf.Output is dropped.
OutputUnchecked ==
    /\ pc = "Output"
    /\ \/ output' = <<[written |-> "full", doc |-> pdf]>>
       \/ \E w \in {"none", "partial"} : output' = <<[written |-> w, doc |-> <<>>]>>
    /\ pc' = "Done"
    /\ UNCHANGED <<err, reader, scene, pdf, decoderCalls, canvasCalls>>
    /\ UNCHANGED <<varsPound, varsSeek>>

\* Lines 115-120: pdf.Output(output) finalizes the canvas and writes the
\* bytes, or fails (an error kept by the canvas, or the writer's error
\* after none or some of the bytes).
Output ==
    /\ pc = "Output"
    /\ \/ /\ output' = <<[written |-> "full", doc |-> pdf]>>
          /\ pc' = "Done"
          /\ UNCHANGED err
       \/ /\ \E w \in {"none", "partial"} : output' = <<[written |-> w, doc |-> <<>>]>>
          /\ err' = "output error"
          /\ pc' = "Failed"
    /\ UNCHANGED <<reader, scene, pdf, decoderCalls, canvasCalls>>
    /\ UNCHANGED <<varsPound, varsSeek>>

NextCustom ==
    \/ CheckArgs
    \/ ReadHeader
    \/ ExtractScene
    \/ Compose
    \/ Output


(***************************************************************************)
(* RenderPoundifdef, lines 18-43.                                          *)
(* ppc: open (19), create (25), render (30), seek (36), returned.          *)
(* An error is <<>> (nil) or <<[msg, cause]>> (fmt.Errorf with %w).        *)
(***************************************************************************)
Wrap(msg, cause) == <<[msg |-> msg, cause |-> cause]>>

FileSizes == 0..MaxOut

\* The bytes of a rendered document: a header and one unit per page.
DocSize(pages) == 1 + pages

InitPound ==
    /\ ppc = "open"
    /\ zip \in { [valid |-> v, pages |-> n, open |-> FALSE] :
                   v \in BOOLEAN, n \in 0..MaxPages }
    /\ zip.valid \/ zip.pages = 0
    /\ fs \in { [creatable |-> c, exists |-> e, size |-> n] :
                  c \in BOOLEAN, e \in BOOLEAN, n \in FileSizes }
    /\ fs.exists \/ fs.size = 0
    /\ writer = <<>>
    /\ rendered = FALSE
    /\ ret = <<>>

\* Lines 19-23: zip.OpenReader, and the deferred reader.Close.
OpenZip ==
    /\ ppc = "open"
    /\ IF ~zip.valid
       THEN /\ ret' = <<[stream |-> <<>>, err |-> Wrap("can't open file", "zip error")]>>
            /\ ppc' = "returned"
            /\ UNCHANGED zip
       ELSE /\ zip' = [zip EXCEPT !.open = TRUE]
            /\ ppc' = "create"
            /\ UNCHANGED ret
    /\ UNCHANGED <<fs, writer, rendered>>
    /\ UNCHANGED <<varsCustom, varsSeek>>

\* Lines 25-28: os.Create truncates or creates the output file.
CreateOutput ==
    /\ ppc = "create"
    /\ IF ~fs.creatable
       THEN /\ ret' = <<[stream |-> <<>>,
                         err |-> Wrap("can't create outputfile", "create error")]>>
            /\ zip' = [zip EXCEPT !.open = FALSE]
            /\ ppc' = "returned"
            /\ UNCHANGED <<fs, writer>>
       ELSE /\ fs' = [fs EXCEPT !.exists = TRUE, !.size = 0]
            /\ writer' = <<[open |-> TRUE, pos |-> 0]>>
            /\ ppc' = "render"
            /\ UNCHANGED <<zip, ret>>
    /\ UNCHANGED rendered
    /\ UNCHANGED <<varsCustom, varsSeek>>

\* A plausible slip: the failure branch returns without writer.Close().
RenderNotebookNoClose ==
    /\ ppc = "render"
    /\ \/ /\ fs' = [fs EXCEPT !.size = DocSize(zip.pages)]
          /\ writer' = <<[writer[1] EXCEPT !.pos = DocSize(zip.pages)]>>
          /\ rendered' = TRUE
          /\ ppc' = "seek"
          /\ UNCHANGED <<zip, ret>>
       \/ \E n \in 0..DocSize(zip.pages) :
             /\ fs' = [fs EXCEPT !.size = n]
             /\ writer' = <<[writer[1] EXCEPT !.pos = n]>>
             /\ ret' = <<[stream |-> <<>>,
                          err |-> Wrap("can't render file", "render error")]>>
             /\ zip' = [zip EXCEPT !.open = FALSE]
             /\ ppc' = "returned"
             /\ UNCHANGED rendered
    /\ UNCHANGED <<varsCustom, varsSeek>>

\* Lines 30-34: the external renderer writes the document through writer,
\* or fails after writing some of it.
RenderNotebook ==
    /\ ppc = "render"
    /\ \/ /\ fs' = [fs EXCEPT !.size = DocSize(zip.pages)]
          /\ writer' = <<[writer[1] EXCEPT !.pos = DocSize(zip.pages)]>>
          /\ rendered' = TRUE
          /\ ppc' = "seek"
          /\ UNCHANGED <<zip, ret>>
       \/ \E n \in 0..DocSize(zip.pages) :
             /\ fs' = [fs EXCEPT !.size = n]
             /\ writer' = <<[open |-> FALSE, pos |-> n]>>
             /\ ret' = <<[stream |-> <<>>,
                          err |-> Wrap("can't render file", "render error")]>>
             /\ zip' = [zip EXCEPT !.open = FALSE]
             /\ ppc' = "returned"
             /\ UNCHANGED rendered
    /\ UNCHANGED <<varsCustom, varsSeek>>

\* A plausible slip: the file is handed back without the rewind.
RewindSkipped ==
    /\ ppc = "seek"
    /\ ret' = <<[stream |-> <<"writer">>, err |-> <<>>]>>
    /\ zip' = [zip EXCEPT !.open = FALSE]
    /\ ppc' = "returned"
    /\ UNCHANGED <<fs, writer, rendered>>
    /\ UNCHANGED <<varsCustom, varsSeek>>

\* Lines 36-42: writer.Seek(0, 0), then the file itself is the result.
Rewind ==
    /\ ppc = "seek"
    /\ \/ /\ writer' = <<[writer[1] EXCEPT !.pos = 0]>>
          /\ ret' = <<[stream |-> <<"writer">>, err |-> <<>>]>>
       \/ /\ writer' = <<[writer[1] EXCEPT !.open = FALSE]>>
          /\ ret' = <<[stream |-> <<>>,
                       err |-> Wrap("can't rewind file", "seek error")]>>
    /\ zip' = [zip EXCEPT !.open = FALSE]
    /\ ppc' = "returned"
    /\ UNCHANGED <<fs, rendered>>
    /\ UNCHANGED <<varsCustom, varsSeek>>

\* Line 18: the result is an io.ReadCloser the caller owns. The caller reads
\* up to n bytes from it ...
CallerRead ==
    /\ ppc \in {"returned", "caller"}
    /\ ret[1].stream # <<>>
    /\ writer[1].open
    /\ \E n \in 1..MaxOut :
          writer' = <<[writer[1] EXCEPT !.pos = Min(fs.size, @ + n)]>>
    /\ ppc' = "caller"
    /\ UNCHANGED <<zip, fs, rendered, ret>>
    /\ UNCHANGED <<varsCustom, varsSeek>>

\* ... and closes it.
CallerClose ==
    /\ ppc \in {"returned", "caller"}
    /\ ret[1].stream # <<>>
    /\ writer[1].open
    /\ writer' = <<[writer[1] EXCEPT !.open = FALSE]>>
    /\ ppc' = "caller"
    /\ UNCHANGED <<zip, fs, rendered, ret>>
    /\ UNCHANGED <<varsCustom, varsSeek>>

NextPound ==
    \/ OpenZip
    \/ CreateOutput
    \/ RenderNotebook
    \/ Rewind
    \/ CallerRead
    \/ CallerClose

(***************************************************************************)
(* SeekCloser, lines 123-138: a *bytes.Reader with a Close method.         *)
(* A reader is [s, i]: the bytes and the read position.                    *)
(***************************************************************************)
ByteVals == {7, 9}
ByteSeqs == UNION { [1..k -> ByteVals] : k \in 0..MaxLen }

\* bytes.NewReader(b).
BytesNewReader(b) == [s |-> b, i |-> 0]

\* (*bytes.Reader).Read into a buffer of n bytes.
BytesRead(r, n) ==
    IF r.i >= Len(r.s)
    THEN [r |-> r, n |-> 0, data |-> <<>>, err |-> "EOF"]
    ELSE LET k == Min(n, Len(r.s) - r.i)
         IN [r |-> [r EXCEPT !.i = @ + k], n |-> k,
             data |-> SubSeq(r.s, r.i + 1, r.i + k), err |-> "nil"]

\* (*bytes.Reader).Seek(offset, whence).
BytesSeek(r, offset, whence) ==
    IF whence \notin {0, 1, 2}
    THEN [r |-> r, n |-> 0, data |-> <<>>, err |-> "invalid whence"]
    ELSE LET abs == CASE whence = 0 -> offset
                      [] whence = 1 -> r.i + offset
                      [] whence = 2 -> Len(r.s) + offset
         IN IF abs < 0
            THEN [r |-> r, n |-> 0, data |-> <<>>, err |-> "negative position"]
            ELSE [r |-> [r EXCEPT !.i = abs], n |-> abs, data |-> <<>>, err |-> "nil"]

\* Lines 132-138.
NewSeekCloser(b) == BytesNewReader(b)

\* A plausible slip: Close marks the stream as consumed.
CloseExhausts(r) == [r |-> [r EXCEPT !.i = Len(r.s)], err |-> "nil"]

\* Lines 127-130: func (*SeekCloser) Close() error { return nil }.
SeekCloserClose(r) == [r |-> r, err |-> "nil"]

InitSeek ==
    /\ \E b \in ByteSeqs :
          /\ sc = NewSeekCloser(b)
          /\ plain = BytesNewReader(b)
    /\ lastOp = [op |-> "new", n |-> 0, data |-> <<>>, err |-> "nil"]
    /\ plainOp = [op |-> "new", n |-> 0, data |-> <<>>, err |-> "nil"]
    /\ closes = 0

\* Read through the embedded *bytes.Reader.
ScRead ==
    /\ \E n \in 0..(MaxLen + 1) :
          LET a == BytesRead(sc, n)
              b == BytesRead(plain, n)
          IN /\ sc' = a.r
             /\ plain' = b.r
             /\ lastOp' = [op |-> "read", n |-> a.n, data |-> a.data, err |-> a.err]
             /\ plainOp' = [op |-> "read", n |-> b.n, data |-> b.data, err |-> b.err]
    /\ UNCHANGED closes
    /\ UNCHANGED <<varsCustom, varsPound>>

\* Seek through the embedded *bytes.Reader.
ScSeek ==
    /\ \E offset \in (0 - MaxSeek)..MaxSeek, whence \in 0..3 :
          LET a == BytesSeek(sc, offset, whence)
              b == BytesSeek(plain, offset, whence)
          IN /\ a.r.i <= MaxLen + MaxSeek
             /\ b.r.i <= MaxLen + MaxSeek
             /\ sc' = a.r
             /\ plain' = b.r
             /\ lastOp' = [op |-> "seek", n |-> a.n, data |-> a.data, err |-> a.err]
             /\ plainOp' = [op |-> "seek", n |-> b.n, data |-> b.data, err |-> b.err]
    /\ UNCHANGED closes
    /\ UNCHANGED <<varsCustom, varsPound>>

\* Close on the SeekCloser only; the plain reader has no Close.
ScClose ==
    /\ closes < MaxCloses
    /\ LET a == SeekCloserClose(sc)
       IN /\ sc' = a.r
          /\ lastOp' = [op |-> "close", n |-> 0, data |-> <<>>, err |-> a.err]
    /\ closes' = closes + 1
    /\ UNCHANGED <<plain, plainOp>>
    /\ UNCHANGED <<varsCustom, varsPound>>

NextSeek ==
    \/ ScRead
    \/ ScSeek
    \/ ScClose

(***************************************************************************)
(* Specifications: one call of each entry point, each on its own.          *)
(***************************************************************************)
ParkedCustom ==
    /\ pc = "Idle" /\ reader = <<>> /\ output = <<>> /\ scene = <<>> /\ pdf = <<>>
    /\ err = "nil" /\ decoderCalls = 0 /\ canvasCalls = 0

ParkedPound ==
    /\ ppc = "open" /\ zip = [valid |-> FALSE, pages |-> 0, open |-> FALSE]
    /\ fs = [creatable |-> FALSE, exists |-> FALSE, size |-> 0]
    /\ writer = <<>> /\ rendered = FALSE /\ ret = <<>>

ParkedSeek ==
    /\ sc = NewSeekCloser(<<>>) /\ plain = BytesNewReader(<<>>)
    /\ lastOp = [op |-> "new", n |-> 0, data |-> <<>>, err |-> "nil"]
    /\ plainOp = [op |-> "new", n |-> 0, data |-> <<>>, err |-> "nil"]
    /\ closes = 0

Init == InitCustom /\ ParkedPound /\ ParkedSeek
Next == NextCustom
Spec == Init /\ [][Next]_vars
\* RenderCustom is one synchronous call: it runs until it returns.
FairSpec == Spec /\ WF_vars(Next)

InitP == InitPound /\ ParkedCustom /\ ParkedSeek
NextP == NextPound
SpecPound == InitP /\ [][NextP]_vars

InitS == InitSeek /\ ParkedCustom /\ ParkedPound
NextS == NextSeek
SpecSeek == InitS /\ [][NextS]_vars


(***************************************************************************)
(* What the properties speak of.                                           *)
(***************************************************************************)
\* The adjacent point pairs <<prev, curr>> of one line, in point order.
PairsOfLine(points) ==
    IF Len(points) < 2 THEN <<>>
    ELSE [i \in 1..(Len(points) - 1) |-> <<points[i], points[i + 1]>>]

\* The adjacent point pairs of a sequence of lines, in line order.
RECURSIVE PairsOfLines(_)
PairsOfLines(lines) ==
    IF lines = <<>> THEN <<>>
    ELSE PairsOfLine(Head(lines).Points) \o PairsOfLines(Tail(lines))

\* The adjacent point pairs of a scene: layer order, line order, point order.
RECURSIVE PairsOfLayers(_)
PairsOfLayers(layers) ==
    IF layers = <<>> THEN <<>>
    ELSE PairsOfLines(Head(layers).Lines) \o PairsOfLayers(Tail(layers))

AdjacentPairs == PairsOfLayers(scene[1].Layers)

Composed == pdf # <<>>
Cmds == pdf[1].cmds

\* The states of the spec's state machine, read off the position in the code.
Phase(p) ==
    CASE p = "Idle" -> "Idle"
      [] p \in {"ReadFull", "ExtractScene"} -> "Ingesting"
      [] p = "Compose" -> "Composing"
      [] p = "Output" -> "Finalizing"
      [] p = "Done" -> "Done"
      [] p = "Failed" -> "Failed"

PcRank(p) ==
    CASE p = "Idle" -> 0
      [] p = "ReadFull" -> 1
      [] p = "ExtractScene" -> 2
      [] p = "Compose" -> 3
      [] p = "Output" -> 4
      [] p \in {"Done", "Failed"} -> 5

Terminal == pc \in {"Done", "Failed"}

PhaseSteps ==
    { <<"Idle", "Ingesting">>, <<"Ingesting", "Ingesting">>,
      <<"Ingesting", "Composing">>, <<"Composing", "Finalizing">>,
      <<"Finalizing", "Done">>,
      <<"Idle", "Failed">>, <<"Ingesting", "Failed">>,
      <<"Composing", "Failed">>, <<"Finalizing", "Failed">> }

NoIO ==
    /\ decoderCalls = 0
    /\ canvasCalls = 0
    /\ pdf = <<>>
    /\ reader # <<>> => reader[1].pos = 0
    /\ output # <<>> => output[1].written = "none"

(***************************************************************************)
(* The claims.                                                             *)
(***************************************************************************)

\* C1 as stated: every segment is drawn with the width of its leading
\* point, prev.width * scaleFactor with scaleFactor = 1.
C1_LeadingPointWidth ==
    Composed =>
        /\ Len(Cmds) = Len(AdjacentPairs)
        /\ \A i \in 1..Len(Cmds) :
              RatEq(Cmds[i].width, Rat(AdjacentPairs[i][1].Width * 1, 1))

\* C1 as amended: every segment between adjacent points (prev, curr) is
\* drawn with the width curr.width * scaleFactor / 5, scaleFactor = 1: the
\* width of its trailing point, divided by 5.
C1_TrailingPointWidthFifth ==
    Composed =>
        /\ Len(Cmds) = Len(AdjacentPairs)
        /\ \A i \in 1..Len(Cmds) :
              RatEq(Cmds[i].width, Rat(AdjacentPairs[i][2].Width * 1, 5))

\* C1 witness: a finished render that drew a segment whose two points
\* differ in width.
C1_Witness ==
    /\ pc = "Done"
    /\ \E i \in 1..Len(Cmds) :
          AdjacentPairs[i][1].Width # AdjacentPairs[i][2].Width

C3_EndpointsRecentred ==
    Composed =>
        \A i \in 1..Min(Len(Cmds), Len(AdjacentPairs)) :
            LET prev == AdjacentPairs[i][1]
                curr == AdjacentPairs[i][2]
                c    == Cmds[i]
            IN /\ 2 * (c.x1 - prev.X) = pdf[1].Wd
               /\ 2 * (c.x2 - curr.X) = pdf[1].Wd
               /\ c.y1 = prev.Y
               /\ c.y2 = curr.Y

\* C3 witness: a line (0,0),(10,20),(0,0) on a page of width 100 drawn as
\* (50,0)->(60,20) and (60,20)->(50,0).
C3_Witness ==
    /\ Composed
    /\ pdf[1].Wd = 100
    /\ Len(Cmds) = 2
    /\ <<Cmds[1].x1, Cmds[1].y1, Cmds[1].x2, Cmds[1].y2>> = <<50, 0, 60, 20>>
    /\ <<Cmds[2].x1, Cmds[2].y1, Cmds[2].x2, Cmds[2].y2>> = <<60, 20, 50, 0>>

\* C4: with a nil reader or a nil output RenderCustom fails with "reader or
\* writer were nil" before any I/O: nothing read, no decoder call, no
\* canvas, nothing written.
C4_NilArgumentsRejected ==
    (reader = <<>> \/ output = <<>>) =>
        /\ pc \in {"Idle", "Failed"}
        /\ pc = "Failed" => err = "reader or writer were nil"
        /\ NoIO

\* C4 witness: the call has failed on a nil output with a readable input.
C4_Witness ==
    /\ pc = "Failed"
    /\ output = <<>>
    /\ reader # <<>>
    /\ reader[1].len >= headerLength
    /\ ~reader[1].broken

\* C5: an input of fewer than 43 bytes fails in io.ReadFull (with io.EOF or
\* io.ErrUnexpectedEOF when the input ends), the decoder is never invoked,
\* no canvas is made and nothing is written.
C5_ShortInputFails ==
    (/\ reader # <<>>
     /\ output # <<>>
     /\ reader[1].len < headerLength
     /\ pc \notin {"Idle", "ReadFull"}) =>
        /\ pc = "Failed"
        /\ ~reader[1].broken => err \in {"EOF", "unexpected EOF"}
        /\ reader[1].len = 0 /\ ~reader[1].broken => err = "EOF"
        /\ decoderCalls = 0
        /\ canvasCalls = 0
        /\ pdf = <<>>
        /\ output[1].written = "none"

\* C5 witness: an input one byte short of the preamble has failed.
C5_Witness ==
    /\ pc = "Failed"
    /\ reader # <<>>
    /\ reader[1].len = headerLength - 1
    /\ err = "unexpected EOF"

\* C8: the call moves Idle -> Ingesting -> Composing -> Finalizing -> Done
\* or to Failed from a non-terminal state, always forward and never out of
\* a terminal state; it ends in Done or Failed, and while it has not failed
\* it comes to Finalizing, where it can still fail; it ends in Done exactly
\* when the error is nil, and then the finalized bytes are in the output.
C8_StateMachine ==
    /\ [][/\ <<Phase(pc), Phase(pc')>> \in PhaseSteps
          /\ PcRank(pc') > PcRank(pc)]_vars
    /\ <>Terminal
    /\ [](pc = "Output" => ENABLED (Output /\ pc' = "Failed"))
    /\ [](Terminal => (pc = "Done" <=> err = "nil"))
    /\ [](pc = "Done" => output[1].written = "full" /\ output[1].doc = pdf)
    /\ [](~Terminal => err = "nil")

\* C8 witness: a call that went through every state to Done.
C8_Witness ==
    /\ pc = "Done"
    /\ reader[1].pos >= headerLength
    /\ scene # <<>>
    /\ Composed
    /\ output[1].written = "full"

C6_ClosedOnEveryExit ==
    (ppc = "returned" /\ writer # <<>>) => ~writer[1].open

\* C6 as amended: once the output file is created, a failing return
\* (renderer or rewind failure) has closed it and hands no stream to the
\* caller; the successful return hands it to the caller open.
C6_ClosedOnFailureOpenOnSuccess ==
    (ppc = "returned" /\ writer # <<>>) =>
        IF ret[1].err # <<>>
        THEN ~writer[1].open /\ ret[1].stream = <<>>
        ELSE writer[1].open /\ ret[1].stream = <<"writer">>

\* C6 witness: the renderer failed after the output file was created.
C6_Witness ==
    /\ ppc = "returned"
    /\ writer # <<>>
    /\ ret[1].err # <<>>
    /\ ret[1].err[1].msg = "can't render file"

\* C7: RenderPoundifdef returns either a stream and no error, the renderer
\* having run to completion and the file being at position 0, or no stream
\* and an error that wraps its cause; never a stream with an error.
C7_StreamXorError ==
    /\ ppc \in {"returned", "caller"} <=> ret # <<>>
    /\ ret # <<>> =>
          \/ /\ ret[1].stream = <<"writer">>
             /\ ret[1].err = <<>>
             /\ rendered
             /\ writer # <<>>
             /\ ppc = "returned" => writer[1].pos = 0 /\ fs.size = DocSize(zip.pages)
          \/ /\ ret[1].stream = <<>>
             /\ ret[1].err # <<>>
             /\ ret[1].err[1].msg \in {"can't open file", "can't create outputfile",
                                       "can't render file", "can't rewind file"}
             /\ ret[1].err[1].cause \in {"zip error", "create error",
                                         "render error", "seek error"}

\* C7 witness: a successful return of a document of several bytes.
C7_Witness ==
    /\ ppc = "returned"
    /\ ret[1].stream # <<>>
    /\ fs.size > 1

\* C10: a stream from NewSeekCloser starts at position 0; Close returns no
\* error every time, and with Close calls among the Read and Seek calls the
\* position, the bytes and every Read and Seek result are those of a reader
\* that was never closed.
C10_CloseIsNoOp ==
    /\ lastOp.op = "new" => sc.i = 0
    /\ lastOp.op = "close" => lastOp.err = "nil"
    /\ lastOp.op \in {"read", "seek"} => lastOp = plainOp
    /\ sc = plain

\* C10 witness: bytes were read after the stream was closed twice.
C10_Witness ==
    /\ closes >= 2
    /\ lastOp.op = "read"
    /\ lastOp.n > 0

=============================================================================
